---- MODULE Spec2Model ----
(***************************************************************************)
(* The concurrent game-state core of hangry-hippos: the player registry    *)
(* (an RwLock'd HashMap), the winner ("crown") mutex, the id generator,    *)
(* the background game loop and the nose-goes round, with the request      *)
(* handlers of src/src/api.rs and the loop of src/src/game.rs translated   *)
(* statement by statement.  A handler is a sequence of steps separated at  *)
(* its lock acquisitions; a lock guard lives to the end of the function    *)
(* (or of the explicit block in the loop), as in Rust.                      *)
(***************************************************************************)
EXTENDS Integers, Sequences, FiniteSets, TLC

\* ---- bounds of the model ------------------------------------------------
MaxIds == 2        \* ids the generator hands out before the model stops it
MaxBalls == 1      \* largest starting food pile of a registration
MaxScore == 2      \* feed requests stop once a score reached this
MaxClock == 850    \* the clock (ms) stops advancing past this
MaxRound == 3      \* players registered when a nose-goes round is studied

\* ---- program constants --------------------------------------------------
EatInterval == 750
SleepMs == 100

Handlers == {"h1", "h2"}
LoopThread == "loop"
PlayerIds == 0 .. (MaxIds - 1)
RoundIds == 0 .. (MaxRound - 1)
Delays == {SleepMs, EatInterval}

VARIABLES
    counter,          \* PlayerIdGenerator's AtomicUsize
    issued,           \* history: the ids next_id has returned, in order
    players,          \* the HashMap<PlayerId, Player> behind the RwLock
    winner,           \* Option<PlayerId> behind the Mutex: {} or {id}
    rwWriter,         \* thread holding the registry write guard: {} or {t}
    rwReaders,        \* threads holding a registry read guard
    winnerHolder,     \* thread holding the winner mutex guard: {} or {t}
    playersPoisoned,  \* the registry RwLock is poisoned
    winnerPoisoned,   \* the winner Mutex is poisoned
    clock,            \* Instant::now(), in ms
    now,              \* the loop's captured `now`
    todo,             \* players retain() has not visited yet in this pass
    pc,               \* position of each thread
    req,              \* a handler's locals: id, score
    sent,             \* the broadcast sends of the last step, in order
    resp,             \* the response returned by the last step, if any
    lost,             \* history: ids the loop visited when due with an empty pile
    nose_goes,        \* the NoseGoes value behind its Mutex
    ngStart,          \* history: the set the running round started with
    ngFirst,          \* history: first attempt of each member, in order
    ngLate            \* history: attempts made after a member had died

vars == <<counter, issued, players, winner, rwWriter, rwReaders, winnerHolder,
          playersPoisoned, winnerPoisoned, clock, now, todo, pc, req, sent,
          resp, lost, nose_goes, ngStart, ngFirst, ngLate>>

lockVars == <<rwWriter, rwReaders, winnerHolder, playersPoisoned, winnerPoisoned>>
loopVars == <<clock, now, todo>>
roundVars == <<nose_goes, ngStart, ngFirst, ngLate>>

\* ---- values ---------------------------------------------------------------
NoReq == [op |-> "none", id |-> 0, score |-> 0]
NoResp == [op |-> "none", id |-> 0, result |-> "none", score |-> 0,
           has_crown |-> FALSE, listed |-> {}]

Response(op, id, result, score, has_crown, listed) ==
    [op |-> op, id |-> id, result |-> result, score |-> score,
     has_crown |-> has_crown, listed |-> listed]

\* A handler that panicked: the request gets no result value.
Panicked(op, id) == Response(op, id, "Panic", 0, FALSE, {})

\* One broadcaster.send(...): hub is "host" or "player"; locked records whether
\* the sending thread held the registry write guard at the call.
Send(hub, kind, id, score, balls, by) ==
    [hub |-> hub, kind |-> kind, id |-> id, score |-> score, balls |-> balls,
     locked |-> (by \in rwWriter)]

NewPlayer(balls, t) == [score |-> 0, balls |-> balls, next_eat_time |-> t]

Insert(map, id, player) ==
    [k \in (DOMAIN map) \cup {id} |-> IF k = id THEN player ELSE map[k]]

Remove(map, id) == [k \in (DOMAIN map) \ {id} |-> map[k]]

\* ---- PlayerIdGenerator ---------------------------------------------------
\* A generator that hands out the counter without advancing it.
FetchAddStale(c) == c
\* self.0.fetch_add(1, Ordering::Relaxed): the counter after the call (the call
\* returns the counter before it).  The usize is far from wrapping within MaxIds.
FetchAdd(c) == c + 1

\* ---- locks ----------------------------------------------------------------
\* RwLock::write() returns once no guard is out; RwLock::read() once no write
\* guard is out; Mutex::lock() once the mutex is free.
\* A write() that does not wait for the guards that are out.
CanWriteAlways == TRUE
CanWrite == rwWriter = {} /\ rwReaders = {}
CanRead == rwWriter = {}
CanLockWinner == winnerHolder = {}

Idle(h) == [pc EXCEPT ![h] = "idle"]
Forget(h) == [req EXCEPT ![h] = NoReq]

\* A panic unwinds the handler: every guard it holds is dropped, and dropping a
\* write guard or a mutex guard while panicking poisons that lock.
PanicLocks(h) ==
    /\ playersPoisoned' = (playersPoisoned \/ h \in rwWriter)
    /\ winnerPoisoned' = (winnerPoisoned \/ h \in winnerHolder)
    /\ rwWriter' = rwWriter \ {h}
    /\ rwReaders' = rwReaders \ {h}
    /\ winnerHolder' = winnerHolder \ {h}

\* A normal return drops the guards without poisoning.
ReleaseLocks(h) ==
    /\ rwWriter' = rwWriter \ {h}
    /\ rwReaders' = rwReaders \ {h}
    /\ winnerHolder' = winnerHolder \ {h}
    /\ UNCHANGED <<playersPoisoned, winnerPoisoned>>

\* The handler of request r panics: the request ends without a result value,
\* and the server goes on serving requests on its other workers.
HandlerPanics(h, r) ==
    /\ PanicLocks(h)
    /\ resp' = Panicked(r.op, r.id)
    /\ pc' = Idle(h)
    /\ req' = Forget(h)
    /\ sent' = <<>>

\* players.write().expect("... poisoned") by the handler of request r.
AcquireWrite(h, to, r) ==
    /\ CanWrite
    /\ IF playersPoisoned
       THEN HandlerPanics(h, r)
       ELSE /\ rwWriter' = {h}
            /\ pc' = [pc EXCEPT ![h] = to]
            /\ req' = [req EXCEPT ![h] = r]
            /\ sent' = <<>>
            /\ resp' = NoResp
            /\ UNCHANGED <<rwReaders, winnerHolder, playersPoisoned, winnerPoisoned>>

\* A query that locks the crown before the registry.
AcquireReadCrownFirst(h, to, r) ==
    /\ CanLockWinner
    /\ winnerHolder' = {h}
    /\ pc' = [pc EXCEPT ![h] = to]
    /\ req' = [req EXCEPT ![h] = r]
    /\ sent' = <<>>
    /\ resp' = NoResp
    /\ UNCHANGED <<rwWriter, rwReaders, playersPoisoned, winnerPoisoned>>

\* players.read().expect("... poisoned")
AcquireRead(h, to, r) ==
    /\ CanRead
    /\ IF playersPoisoned
       THEN HandlerPanics(h, r)
       ELSE /\ rwReaders' = rwReaders \cup {h}
            /\ pc' = [pc EXCEPT ![h] = to]
            /\ req' = [req EXCEPT ![h] = r]
            /\ sent' = <<>>
            /\ resp' = NoResp
            /\ UNCHANGED <<rwWriter, winnerHolder, playersPoisoned, winnerPoisoned>>

\* winner.lock().expect("Winner was poisoned!")
AcquireWinner(h, to) ==
    /\ CanLockWinner
    /\ IF winnerPoisoned
       THEN HandlerPanics(h, req[h])
       ELSE /\ winnerHolder' = {h}
            /\ pc' = [pc EXCEPT ![h] = to]
            /\ sent' = <<>>
            /\ resp' = NoResp
            /\ UNCHANGED <<req, rwWriter, rwReaders, playersPoisoned, winnerPoisoned>>

\* ---- register_player ------------------------------------------------------
\* let id = PlayerId::new(): the generator's fetch_add, before any lock.
RegisterNewId(h) ==
    /\ pc[h] = "idle"
    /\ counter < MaxIds
    /\ counter' = FetchAdd(counter)
    /\ issued' = Append(issued, counter)
    /\ pc' = [pc EXCEPT ![h] = "reg_write"]
    /\ req' = [req EXCEPT ![h] = [op |-> "register", id |-> counter, score |-> 0]]
    /\ sent' = <<>>
    /\ resp' = NoResp
    /\ UNCHANGED <<players, winner, lockVars, loopVars, lost, roundVars>>

\* let mut players = players.write().expect("Players map was poisoned!");
RegisterWrite(h) ==
    /\ pc[h] = "reg_write"
    /\ AcquireWrite(h, "reg_insert", req[h])
    /\ UNCHANGED <<counter, issued, players, winner, loopVars, lost, roundVars>>

\* players.insert(id, player); assert!(old.is_none()); host send PlayerRegister.
\* The Player is built with score 0; of the fields game.rs declares, the food
\* pile is the registration's input and the first eat time is the instant of
\* the registration.
RegisterInsert(h, balls) ==
    /\ pc[h] = "reg_insert"
    /\ players' = Insert(players, req[h].id, NewPlayer(balls, clock))
    /\ IF req[h].id \in DOMAIN players
       THEN HandlerPanics(h, req[h])
       ELSE /\ sent' = <<Send("host", "PlayerRegister", req[h].id, 0, 0, h)>>
            /\ pc' = [pc EXCEPT ![h] = "reg_winner"]
            /\ resp' = NoResp
            /\ UNCHANGED <<req, lockVars>>
    /\ UNCHANGED <<counter, issued, winner, loopVars, lost, roundVars>>

\* A test of the crown that finds it empty whatever it holds.
IsNoneAlways(w) == TRUE
\* winner.is_none()
IsNone(w) == w = {}

\* Both hubs are told of a holder on every pass through the crown section.
UpdateWinnerSendsAlways(changed, id, by) ==
    <<Send("host", "UpdateWinner", id, 0, 0, by),
      Send("player", "UpdateWinner", id, 0, 0, by)>>
\* host_broadcaster.send(HostBroadcast::UpdateWinner { id });
\* player_broadcaster.send(PlayerBroadcast::UpdateWinner { id });
\* inside the branch that changes the holder.
UpdateWinnerSends(changed, id, by) ==
    IF changed
    THEN <<Send("host", "UpdateWinner", id, 0, 0, by),
           Send("player", "UpdateWinner", id, 0, 0, by)>>
    ELSE <<>>

\* let mut winner = winner.lock().expect("Winner was poisoned!");
RegisterWinnerLock(h) ==
    /\ pc[h] = "reg_winner"
    /\ AcquireWinner(h, "reg_crown")
    /\ UNCHANGED <<counter, issued, players, winner, loopVars, lost, roundVars>>

\* has_crown = winner.is_none(); if so *winner = Some(id) and both hubs get
\* UpdateWinner; then the response, and the guards drop.
RegisterCrown(h) ==
    /\ pc[h] = "reg_crown"
    /\ LET id == req[h].id
           has_crown == IsNone(winner)
       IN /\ winner' = IF has_crown THEN {id} ELSE winner
          /\ sent' = UpdateWinnerSends(has_crown, id, h)
          /\ resp' = Response("register", id, "Ok", 0, has_crown, {})
    /\ ReleaseLocks(h)
    /\ pc' = Idle(h)
    /\ req' = Forget(h)
    /\ UNCHANGED <<counter, issued, players, loopVars, lost, roundVars>>

\* ---- feed_player ----------------------------------------------------------
\* A comparison that also hands the crown over on equal scores.
OvertakesOnTie(score, winner_score, id, holder) ==
    score >= winner_score /\ id # holder
\* if score > winner_score && id != *winner
Overtakes(score, winner_score, id, holder) ==
    score > winner_score /\ id # holder

\* let id = payload.id;
\* let mut players = players.write().expect("Player map was poisoned!");
FeedWrite(h, id) ==
    /\ pc[h] = "idle"
    /\ id \in DOMAIN players => players[id].score < MaxScore
    /\ AcquireWrite(h, "feed_score", [op |-> "feed", id |-> id, score |-> 0])
    /\ UNCHANGED <<counter, issued, players, winner, loopVars, lost, roundVars>>

\* players.get_mut(&id).ok_or(Error::InvalidPlayer(id))?; player.score += 1;
\* host_broadcaster.send(HippoEat { id, score }).
FeedScore(h) ==
    /\ pc[h] = "feed_score"
    /\ LET id == req[h].id IN
       IF id \notin DOMAIN players
       THEN /\ resp' = Response("feed", id, "InvalidPlayer", 0, FALSE, {})
            /\ ReleaseLocks(h)
            /\ pc' = Idle(h)
            /\ req' = Forget(h)
            /\ sent' = <<>>
            /\ UNCHANGED players
       ELSE /\ players' = [players EXCEPT ![id].score = @ + 1]
            /\ req' = [req EXCEPT ![h].score = players[id].score + 1]
            /\ sent' = <<Send("host", "HippoEat", id, players[id].score + 1, 0, h)>>
            /\ pc' = [pc EXCEPT ![h] = "feed_winner"]
            /\ resp' = NoResp
            /\ UNCHANGED lockVars
    /\ UNCHANGED <<counter, issued, winner, loopVars, lost, roundVars>>

\* let mut winner = winner.lock().expect("Winner was poisoned!");
FeedWinnerLock(h) ==
    /\ pc[h] = "feed_winner"
    /\ AcquireWinner(h, "feed_crown")
    /\ UNCHANGED <<counter, issued, players, winner, loopVars, lost, roundVars>>

\* winner.as_mut().expect(..); players.get(winner).unwrap().score; the
\* comparison, mem::replace and the two UpdateWinner sends; Ok(FeedMeResponse).
FeedCrown(h) ==
    /\ pc[h] = "feed_crown"
    /\ LET id == req[h].id
           score == req[h].score
       IN IF winner = {} \/ ~(winner \subseteq DOMAIN players)
          THEN \* expect() on None, or unwrap() on a holder the map has lost
               /\ HandlerPanics(h, req[h])
               /\ UNCHANGED winner
          ELSE LET holder == CHOOSE w \in winner : TRUE
                   winner_score == players[holder].score
                   take == Overtakes(score, winner_score, id, holder)
               IN /\ winner' = IF take THEN {id} ELSE winner
                  /\ sent' = UpdateWinnerSends(take, id, h)
                  /\ resp' = Response("feed", id, "Ok", score, FALSE, {})
                  /\ ReleaseLocks(h)
                  /\ pc' = Idle(h)
                  /\ req' = Forget(h)
    /\ UNCHANGED <<counter, issued, players, loopVars, lost, roundVars>>

\* ---- get_player, get_players ------------------------------------------------
\* PlayerData { id, name, score, has_crown: Some(player.id) == *winner }
PlayerData(id) ==
    [id |-> id, score |-> players[id].score, has_crown |-> (winner = {id})]

\* let players = players.read().expect("Player map was poisoned!");
GetRead(h, op) ==
    /\ pc[h] = "idle"
    /\ AcquireRead(h, "get_winner", [op |-> op, id |-> 0, score |-> 0])
    /\ UNCHANGED <<counter, issued, players, winner, loopVars, lost, roundVars>>

\* let winner = winner.lock().expect("Winner was poisoned!");
GetWinnerLock(h) ==
    /\ pc[h] = "get_winner"
    /\ AcquireWinner(h, "get_resp")
    /\ UNCHANGED <<counter, issued, players, winner, loopVars, lost, roundVars>>

\* get_player: players.get(&id).map(..), id being the request's path parameter.
GetPlayerRespond(h, id) ==
    /\ pc[h] = "get_resp"
    /\ req[h].op = "get_player"
    /\ resp' = IF id \in DOMAIN players
               THEN Response("get_player", id, "Some", players[id].score,
                             winner = {id}, {})
               ELSE Response("get_player", id, "None", 0, FALSE, {})
    /\ ReleaseLocks(h)
    /\ pc' = Idle(h)
    /\ req' = Forget(h)
    /\ sent' = <<>>
    /\ UNCHANGED <<counter, issued, players, winner, loopVars, lost, roundVars>>

\* get_players: players.values().map(..).collect()
GetPlayersRespond(h) ==
    /\ pc[h] = "get_resp"
    /\ req[h].op = "get_players"
    /\ resp' = Response("get_players", 0, "Ok", 0, FALSE,
                        {PlayerData(k) : k \in DOMAIN players})
    /\ ReleaseLocks(h)
    /\ pc' = Idle(h)
    /\ req' = Forget(h)
    /\ sent' = <<>>
    /\ UNCHANGED <<counter, issued, players, winner, loopVars, lost, roundVars>>

\* ---- start_game_loop ---------------------------------------------------------
\* A closure that takes every player to be due.
ReadyAlways(player, n) == TRUE
\* if now < player.next_eat_time { return true; }
Ready(player, n) == ~(n < player.next_eat_time)

\* A closure that never drops a player.
RetainedAlways(player, n) == TRUE
\* The closure's return value: whether retain() keeps the player.
Retained(player, n) == (~Ready(player, n)) \/ player.balls > 0

\* A closure that eats without looking at the eat time or at the pile.
EatenUnguarded(player, n) ==
    [score |-> player.score + 1,
     balls |-> player.balls - 1,
     next_eat_time |-> player.next_eat_time + EatInterval]
\* A closure that eats and leaves the next eat time where it was.
EatenNoDelay(player, n) ==
    IF Ready(player, n) /\ player.balls > 0
    THEN [player EXCEPT !.score = @ + 1, !.balls = @ - 1]
    ELSE player
\* The closure's effect on the player it is given.
Eaten(player, n) ==
    IF Ready(player, n) /\ player.balls > 0
    THEN [score |-> player.score + 1,
          balls |-> player.balls - 1,
          next_eat_time |-> player.next_eat_time + EatInterval]
    ELSE player

\* Sends that carry the score the player had before the bite.
EatSendsStale(id, player, n) ==
    IF ~Ready(player, n) THEN <<>>
    ELSE IF player.balls > 0
    THEN <<Send("host", "HippoEat", id, player.score, player.balls - 1, LoopThread),
           Send("player", "HippoEat", id, player.score, player.balls - 1, LoopThread)>>
    ELSE <<Send("host", "PlayerLose", id, 0, 0, LoopThread),
           Send("player", "PlayerLose", id, player.score, 0, LoopThread)>>
\* The closure's broadcasts, in order.
EatSends(id, player, n) ==
    IF ~Ready(player, n) THEN <<>>
    ELSE IF player.balls > 0
    THEN <<Send("host", "HippoEat", id, player.score + 1, player.balls - 1, LoopThread),
           Send("player", "HippoEat", id, player.score + 1, player.balls - 1, LoopThread)>>
    ELSE <<Send("host", "PlayerLose", id, 0, 0, LoopThread),
           Send("player", "PlayerLose", id, player.score, 0, LoopThread)>>

\* let now = Instant::now();
LoopNow ==
    /\ pc[LoopThread] = "now"
    /\ now' = clock
    /\ pc' = [pc EXCEPT ![LoopThread] = "lock"]
    /\ sent' = <<>>
    /\ resp' = NoResp
    /\ UNCHANGED <<counter, issued, players, winner, lockVars, clock, todo, req,
                   lost, roundVars>>

\* let mut players = players.write().expect("Hippo map was poisoned!");
\* a poisoned map ends the loop's thread.
LoopLock ==
    /\ pc[LoopThread] = "lock"
    /\ CanWrite
    /\ IF playersPoisoned
       THEN /\ pc' = [pc EXCEPT ![LoopThread] = "dead"]
            /\ UNCHANGED <<rwWriter, todo>>
       ELSE /\ rwWriter' = {LoopThread}
            /\ todo' = DOMAIN players
            /\ pc' = [pc EXCEPT ![LoopThread] = "retain"]
    /\ sent' = <<>>
    /\ resp' = NoResp
    /\ UNCHANGED <<counter, issued, players, winner, rwReaders, winnerHolder,
                   playersPoisoned, winnerPoisoned, clock, now, req, lost, roundVars>>

\* One call of retain()'s closure; a HashMap is visited in no particular order.
LoopVisit(id) ==
    /\ pc[LoopThread] = "retain"
    /\ id \in todo
    /\ LET player == players[id] IN
       /\ players' = IF Retained(player, now)
                     THEN [players EXCEPT ![id] = Eaten(player, now)]
                     ELSE Remove(players, id)
       /\ lost' = IF Ready(player, now) /\ player.balls = 0 THEN lost \cup {id} ELSE lost
       /\ sent' = EatSends(id, player, now)
    /\ todo' = todo \ {id}
    /\ resp' = NoResp
    /\ UNCHANGED <<counter, issued, winner, lockVars, clock, now, pc, req, roundVars>>

\* The end of the block: the write guard drops.
LoopUnlock ==
    /\ pc[LoopThread] = "retain"
    /\ todo = {}
    /\ rwWriter' = rwWriter \ {LoopThread}
    /\ pc' = [pc EXCEPT ![LoopThread] = "sleep"]
    /\ sent' = <<>>
    /\ resp' = NoResp
    /\ UNCHANGED <<counter, issued, players, winner, rwReaders, winnerHolder,
                   playersPoisoned, winnerPoisoned, loopVars, req, lost, roundVars>>

\* thread::sleep(Duration::from_millis(100)): at least 100 ms pass.
LoopSleep(d) ==
    /\ pc[LoopThread] = "sleep"
    /\ clock + d <= MaxClock
    /\ clock' = clock + d
    /\ pc' = [pc EXCEPT ![LoopThread] = "now"]
    /\ sent' = <<>>
    /\ resp' = NoResp
    /\ UNCHANGED <<counter, issued, players, winner, lockVars, now, todo, req,
                   lost, roundVars>>

\* ---- nose_goes ---------------------------------------------------------------
Inactive == [state |-> "Inactive", remaining_players |-> {}]
InProgress(remaining) == [state |-> "InProgress", remaining_players |-> remaining]

\* A test that lets the last player leave as well.
SeveralLeftOrOne(remaining) == Cardinality(remaining) >= 1
\* remaining_players.len() > 1
SeveralLeft(remaining) == Cardinality(remaining) > 1

\* A handler without the membership test.
NotInRoundNever(remaining, id) == FALSE
\* !remaining_players.contains(&id)
NotInRound(remaining, id) == id \notin remaining

\* The match in nose_goes: the value it returns.
NoseGoesResult(ng, id) ==
    IF ng.state = "Inactive" THEN "InvalidNoesGoes"
    ELSE IF NotInRound(ng.remaining_players, id) THEN "InvalidNoesGoes"
    ELSE IF SeveralLeft(ng.remaining_players) THEN "Survived"
    ELSE "Died"

\* The match in nose_goes: the state it leaves.
NoseGoesAfter(ng, id) ==
    IF NoseGoesResult(ng, id) = "Survived"
    THEN InProgress(ng.remaining_players \ {id})
    ELSE ng

Attempted == {ngFirst[i].id : i \in DOMAIN ngFirst}

\* The round has had its terminal outcome: some attempt returned Died.
Terminal == \E i \in DOMAIN ngFirst : ngFirst[i].result = "Died"

\* The whole handler: one critical section of the nose-goes mutex.
NoseGoes(h, id) ==
    /\ pc[h] = "idle"
    /\ nose_goes' = NoseGoesAfter(nose_goes, id)
    /\ resp' = Response("nose_goes", id, NoseGoesResult(nose_goes, id), 0, FALSE, {})
    /\ ngFirst' = IF id \in ngStart /\ id \notin Attempted
                  THEN Append(ngFirst, [id |-> id, result |-> NoseGoesResult(nose_goes, id)])
                  ELSE ngFirst
    /\ ngLate' = IF Terminal
                 THEN ngLate \cup {[id |-> id, result |-> NoseGoesResult(nose_goes, id)]}
                 ELSE ngLate
    /\ sent' = <<>>
    /\ UNCHANGED <<counter, issued, players, winner, lockVars, loopVars, pc, req,
                   lost, ngStart>>

\* start(players): only from Inactive, with players that are registered.
StartNoseGoes(round) ==
    /\ nose_goes.state = "Inactive"
    /\ round \subseteq DOMAIN players
    /\ nose_goes' = InProgress(round)
    /\ ngStart' = round
    /\ ngFirst' = <<>>
    /\ ngLate' = {}
    /\ sent' = <<>>
    /\ resp' = NoResp
    /\ UNCHANGED <<counter, issued, players, winner, lockVars, loopVars, pc, req, lost>>

\* ---- the system --------------------------------------------------------------
Init ==
    /\ counter = 0
    /\ issued = <<>>
    /\ players = <<>>
    /\ winner = {}
    /\ rwWriter = {}
    /\ rwReaders = {}
    /\ winnerHolder = {}
    /\ playersPoisoned = FALSE
    /\ winnerPoisoned = FALSE
    /\ clock = 0
    /\ now = 0
    /\ todo = {}
    /\ pc = [t \in Handlers \cup {LoopThread} |-> IF t = LoopThread THEN "now" ELSE "idle"]
    /\ req = [h \in Handlers |-> NoReq]
    /\ sent = <<>>
    /\ resp = NoResp
    /\ lost = {}
    /\ nose_goes = Inactive
    /\ ngStart = {}
    /\ ngFirst = <<>>
    /\ ngLate = {}

Next ==
    \/ \E h \in Handlers : RegisterNewId(h)
    \/ \E h \in Handlers : RegisterWrite(h)
    \/ \E h \in Handlers : \E balls \in 0 .. MaxBalls : RegisterInsert(h, balls)
    \/ \E h \in Handlers : RegisterWinnerLock(h)
    \/ \E h \in Handlers : RegisterCrown(h)
    \/ \E h \in Handlers : \E id \in PlayerIds : FeedWrite(h, id)
    \/ \E h \in Handlers : FeedScore(h)
    \/ \E h \in Handlers : FeedWinnerLock(h)
    \/ \E h \in Handlers : FeedCrown(h)
    \/ \E h \in Handlers : \E op \in {"get_player", "get_players"} : GetRead(h, op)
    \/ \E h \in Handlers : GetWinnerLock(h)
    \/ \E h \in Handlers : \E id \in PlayerIds : GetPlayerRespond(h, id)
    \/ \E h \in Handlers : GetPlayersRespond(h)
    \/ LoopNow
    \/ LoopLock
    \/ \E id \in PlayerIds : LoopVisit(id)
    \/ LoopUnlock
    \/ \E d \in Delays : LoopSleep(d)

Spec == Init /\ [][Next]_vars

\* The nose-goes round has its own mutex and shares no data with the registry,
\* the crown or the loop, so it is studied on its own, from a state in which
\* MaxRound players have registered (the first of them holds the crown).
InitRound ==
    /\ counter = MaxRound
    /\ issued = [i \in 1 .. MaxRound |-> i - 1]
    /\ players = [id \in RoundIds |-> NewPlayer(MaxBalls, 0)]
    /\ winner = {0}
    /\ rwWriter = {}
    /\ rwReaders = {}
    /\ winnerHolder = {}
    /\ playersPoisoned = FALSE
    /\ winnerPoisoned = FALSE
    /\ clock = 0
    /\ now = 0
    /\ todo = {}
    /\ pc = [t \in Handlers \cup {LoopThread} |-> IF t = LoopThread THEN "now" ELSE "idle"]
    /\ req = [h \in Handlers |-> NoReq]
    /\ sent = <<>>
    /\ resp = NoResp
    /\ lost = {}
    /\ nose_goes = Inactive
    /\ ngStart = {}
    /\ ngFirst = <<>>
    /\ ngLate = {}

NextRound ==
    \/ \E round \in SUBSET RoundIds : StartNoseGoes(round)
    \/ \E h \in Handlers : \E id \in RoundIds : NoseGoes(h, id)

SpecRound == InitRound /\ [][NextRound]_vars

\* The game loop on its own, with a nose-goes round going on beside it, from a
\* state in which MaxRound players have registered at time 0 with the given
\* food piles (the first of them holds the crown) and the loop has not yet made
\* its first pass.
Registered(piles) ==
    /\ counter = MaxRound
    /\ issued = [i \in 1 .. MaxRound |-> i - 1]
    /\ players = [id \in RoundIds |-> NewPlayer(piles[id], 0)]
    /\ winner = {0}
    /\ rwWriter = {}
    /\ rwReaders = {}
    /\ winnerHolder = {}
    /\ playersPoisoned = FALSE
    /\ winnerPoisoned = FALSE
    /\ clock = 0
    /\ now = 0
    /\ todo = {}
    /\ pc = [t \in Handlers \cup {LoopThread} |-> IF t = LoopThread THEN "now" ELSE "idle"]
    /\ req = [h \in Handlers |-> NoReq]
    /\ sent = <<>>
    /\ resp = NoResp
    /\ lost = {}
    /\ nose_goes = Inactive
    /\ ngStart = {}
    /\ ngFirst = <<>>
    /\ ngLate = {}

InitTick == \E piles \in [RoundIds -> 0 .. MaxBalls] : Registered(piles)

NextTick ==
    \/ LoopNow
    \/ LoopLock
    \/ \E id \in RoundIds : LoopVisit(id)
    \/ LoopUnlock
    \/ \E d \in Delays : LoopSleep(d)
    \/ \E round \in SUBSET RoundIds : StartNoseGoes(round)
    \/ \E h \in Handlers : \E id \in RoundIds : NoseGoes(h, id)

SpecTick == InitTick /\ [][NextTick]_vars

\* Scenario A: every one of the registered players starts with one ball.
InitScenarioA == Registered([id \in RoundIds |-> 1])

SpecScenarioA == InitScenarioA /\ [][NextTick]_vars

\* The game loop and concurrent feed requests, from the registered players of
\* InitTick.  The loop keeps running: its thread is scheduled again and again
\* (each of its own steps is taken if it stays possible), and a write() it
\* waits in returns if the guard is free again and again, however many
\* requests compete for it.  A handler that is inside a request is scheduled
\* too; requests themselves need not keep arriving.
LoopStep ==
    \/ LoopNow
    \/ \E id \in RoundIds : LoopVisit(id)
    \/ LoopUnlock
    \/ \E d \in Delays : LoopSleep(d)

FeedStep == \E h \in Handlers : FeedScore(h) \/ FeedWinnerLock(h) \/ FeedCrown(h)

NextLive ==
    \/ \E h \in Handlers : \E id \in RoundIds : FeedWrite(h, id)
    \/ FeedStep
    \/ LoopStep
    \/ LoopLock

SpecLive ==
    /\ InitTick
    /\ [][NextLive]_vars
    /\ WF_vars(LoopStep)
    /\ SF_vars(LoopLock)
    /\ WF_vars(FeedStep)

\* ==== properties ==================================================================

\* An observation point: nobody is inside an exclusive section of the registry.
Observable == rwWriter = {}

UpdateWinnerSent(msgs) == \E i \in DOMAIN msgs : msgs[i].kind = "UpdateWinner"

\* C1: crown invariant. At every observation point either no player is
\* registered and the crown is empty, or the crown holder is registered and its
\* score is at least the score of every registered player.
C1_CrownInvariant ==
    Observable =>
        \/ DOMAIN players = {} /\ winner = {}
        \/ \E w \in winner :
              /\ w \in DOMAIN players
              /\ \A id \in DOMAIN players : players[w].score >= players[id].score

\* C2: once the crown is non-empty it names a registered player, so the lookup
\* of the holder's score in feed_player never fails (no feed request panics on
\* a healthy map).
C2_CrownNamesRegistered ==
    /\ Observable /\ winner # {} => winner \subseteq DOMAIN players
    /\ \A h \in Handlers :
          pc[h] = "feed_crown" => winner # {} /\ winner \subseteq DOMAIN players

\* C3: a feed moves the crown only to the fed player, only when that player is
\* not the holder and its new score is strictly greater than the holder's, and
\* then publishes the crown change; on a tie, or when the holder itself is fed,
\* the crown stays and no crown-change event is published.
C3_CrownHandOff ==
    [][ /\ (winner # {} /\ winner' # winner) =>
              \E h \in Handlers :
                 /\ pc[h] = "feed_crown"
                 /\ winner' = {req[h].id}
                 /\ req[h].id \notin winner
                 /\ \A w \in winner :
                       /\ w \in DOMAIN players
                       /\ players[req[h].id].score > players[w].score
                 /\ UpdateWinnerSent(sent')
        /\ \A h \in Handlers :
              ( /\ pc[h] = "feed_crown"
                /\ pc'[h] = "idle"
                /\ winner # {}
                /\ winner \subseteq DOMAIN players
                /\ \/ req[h].id \in winner
                   \/ \A w \in winner : players[req[h].id].score <= players[w].score )
              => (winner' = winner /\ ~UpdateWinnerSent(sent'))
      ]_vars

\* C3 witness: a feed has just taken the crown from another player.
C3_Witness ==
    /\ resp.op = "feed"
    /\ resp.result = "Ok"
    /\ winner = {resp.id}
    /\ UpdateWinnerSent(sent)
    /\ Cardinality(DOMAIN players) > 1

\* C4: no broadcast send is performed by a thread that holds the registry's
\* write guard.
C4_NoSendUnderRegistryLock == \A i \in DOMAIN sent : ~sent[i].locked

\* ---- nose-goes round -------------------------------------------------------------

Survivors == {ngFirst[i].id : i \in {j \in DOMAIN ngFirst : ngFirst[j].result = "Survived"}}

\* C5: in a round started with N >= 1 players, the first attempts of the members
\* return Survived for the first N-1 of them, each removing exactly that member
\* from the remaining set, and Died for the Nth; and while the round is in
\* progress the remaining set never grows.
C5_RoundOutcomes ==
    /\ [](LET N == Cardinality(ngStart) IN
            (nose_goes.state = "InProgress" /\ N >= 1) =>
               /\ \A i \in DOMAIN ngFirst :
                     ngFirst[i].result = (IF i < N THEN "Survived" ELSE "Died")
               /\ nose_goes.remaining_players = ngStart \ Survivors
               /\ Cardinality(Survivors) = (IF Len(ngFirst) < N THEN Len(ngFirst) ELSE N - 1))
    /\ [][ (nose_goes.state = "InProgress" /\ nose_goes'.state = "InProgress")
              => nose_goes'.remaining_players \subseteq nose_goes.remaining_players ]_vars

\* C5 witness: every member of a full round has attempted to leave once, and the
\* last one died.
C5_Witness ==
    /\ Cardinality(ngStart) = MaxRound
    /\ Len(ngFirst) = MaxRound
    /\ resp.result = "Died"

\* C6 as stated: once an attempt has returned Died, every further attempt, by any
\* id, returns InvalidNoesGoes.
C6_LateAttemptsInvalid == \A a \in ngLate : a.result = "InvalidNoesGoes"

\* C6 as amended: once an attempt has returned Died, a further attempt by any
\* other id returns InvalidNoesGoes, a further attempt by the player who died
\* returns Died again, and the round stays as it is: in progress, with that
\* player alone in the remaining set.
C6_LateAttempts ==
    Terminal =>
        /\ nose_goes.state = "InProgress"
        /\ Cardinality(nose_goes.remaining_players) = 1
        /\ \A i \in DOMAIN ngFirst :
              ngFirst[i].result = "Died" => nose_goes.remaining_players = {ngFirst[i].id}
        /\ \A a \in ngLate :
              a.result = (IF a.id \in nose_goes.remaining_players
                          THEN "Died" ELSE "InvalidNoesGoes")

\* C6 witness: after the terminal outcome both the player who died and another
\* id have attempted again.
C6_Witness ==
    /\ Terminal
    /\ \E a \in ngLate : a.result = "Died"
    /\ \E a \in ngLate : a.result = "InvalidNoesGoes"

\* C9: an attempt made while the round is Inactive, or by an id that is not in
\* the remaining set of the round in progress, returns InvalidNoesGoes and
\* leaves the round state unchanged.
C9_InvalidAttempt ==
    [][ ( /\ resp'.op = "nose_goes"
          /\ \/ nose_goes.state = "Inactive"
             \/ resp'.id \notin nose_goes.remaining_players )
        => (resp'.result = "InvalidNoesGoes" /\ nose_goes' = nose_goes) ]_vars

\* C9 witness: a member that had left with Survived has just been refused.
C9_Witness ==
    /\ resp.op = "nose_goes"
    /\ resp.result = "InvalidNoesGoes"
    /\ nose_goes.state = "InProgress"
    /\ resp.id \in Survivors

\* ---- registry ---------------------------------------------------------------------

\* C7: a feed request for an id that is not in the registry returns
\* InvalidPlayer and changes nothing: no player, no crown, no broadcast.
C7_FeedUnregistered ==
    [][ (resp'.op = "feed" /\ resp'.id \notin DOMAIN players)
        => /\ resp'.result = "InvalidPlayer"
           /\ players' = players
           /\ winner' = winner
           /\ sent' = <<>> ]_vars

\* C8: the ids next_id returns are pairwise distinct under every interleaving of
\* registrations, so a registration about to insert never finds its id in the
\* map (the duplicate-id assertion does not fire).
C8_DistinctIds ==
    /\ \A i, j \in DOMAIN issued : i # j => issued[i] # issued[j]
    /\ \A h1, h2 \in Handlers :
          (h1 # h2 /\ req[h1].op = "register" /\ req[h2].op = "register")
             => req[h1].id # req[h2].id
    /\ \A h \in Handlers :
          pc[h] \in {"reg_write", "reg_insert"}
             => (req[h].id \notin DOMAIN players /\ req[h].id \notin lost)

\* C8 witness: two registrations in flight at once, one already holding the
\* registry and about to insert.
C8_Witness ==
    /\ pc["h1"] = "reg_insert"
    /\ pc["h2"] = "reg_write"
    /\ Len(issued) = 2

\* C10: a player the loop visited when due with an empty food pile is gone from
\* the registry, is never inserted again, and appears in no later get_player or
\* get_players result.
C10_EliminatedStaysAbsent ==
    /\ \A id \in lost : id \notin DOMAIN players
    /\ (resp.op = "get_player" /\ resp.id \in lost) => resp.result # "Some"
    /\ resp.op = "get_players" => \A d \in resp.listed : d.id \notin lost

\* C10 witness: after an elimination, get_players has listed the players left.
C10_Witness ==
    /\ lost # {}
    /\ resp.op = "get_players"
    /\ resp.listed # {}

\* C11: while a player is registered its score never decreases from one state to
\* the next, its food pile is never negative, and a loop visit never takes a
\* ball from an empty pile.
C11_ScoreAndPile ==
    /\ [](\A id \in DOMAIN players : players[id].balls >= 0 /\ players[id].score >= 0)
    /\ [][ \A id \in (DOMAIN players) \cap (DOMAIN players') :
              /\ players'[id].score >= players[id].score
              /\ players[id].balls = 0 => players'[id].balls = 0 ]_vars

\* C11 witness: a registered player has been fed by a request and by the loop,
\* and its pile is empty.
C11_Witness ==
    \E id \in DOMAIN players :
       /\ players[id].score = 2
       /\ players[id].balls = 0
       /\ players[id].next_eat_time = EatInterval
       /\ pc[LoopThread] = "retain"
       /\ id \notin todo
       /\ now > 0

\* The threads whose lock thread t is waiting for.
WaitsFor(t) ==
    IF pc[t] \in {"reg_winner", "feed_winner", "get_winner"}
    THEN winnerHolder \ {t}
    ELSE IF pc[t] \in {"reg_write", "lock"}
         THEN (rwWriter \cup rwReaders) \ {t}
         ELSE {}

\* C12: whoever holds the crown lock took a registry guard before it and still
\* holds it, and no group of threads (handlers and game loop) is deadlocked,
\* each waiting for a lock held by another of the group.
C12_LockOrderNoDeadlock ==
    /\ winnerHolder \subseteq (rwWriter \cup rwReaders)
    /\ \A group \in (SUBSET (Handlers \cup {LoopThread})) \ {{}} :
          \E t \in group : WaitsFor(t) \cap group = {}

\* C12 witness: one query holds a read guard and the crown lock, another holds
\* a read guard and waits for the crown lock, and the game loop waits for the
\* write guard.
C12_Witness ==
    /\ pc["h1"] = "get_resp"
    /\ pc["h2"] = "get_winner"
    /\ pc[LoopThread] = "lock"
    /\ rwReaders = Handlers
    /\ winnerHolder = {"h1"}

\* The ids of the registrations still on their way to the crown section.
Registering ==
    {req[h].id : h \in {g \in Handlers :
                           pc[g] \in {"reg_write", "reg_insert", "reg_winner", "reg_crown"}}}

\* C13: a registration takes the crown, tells both hubs and reports
\* has_crown = TRUE exactly when it finds the crown empty; one that finds it
\* held leaves it alone, sends no UpdateWinner and reports has_crown = FALSE.
\* The crown never becomes empty again and is empty only while no
\* registration has returned, so of any concurrent registrations exactly one,
\* the first to reach the crown, receives it.
C13_RegistrationCrown ==
    /\ [][\A h \in Handlers :
            (pc[h] = "reg_crown" /\ pc'[h] = "idle") =>
               IF winner = {}
               THEN /\ winner' = {req[h].id}
                    /\ resp'.has_crown
                    /\ resp'.id = req[h].id
                    /\ Len(sent') = 2
                    /\ \A i \in DOMAIN sent' :
                          sent'[i].kind = "UpdateWinner" /\ sent'[i].id = req[h].id
               ELSE /\ winner' = winner
                    /\ ~resp'.has_crown
                    /\ sent' = <<>>]_vars
    /\ [][winner # {} => winner' # {}]_vars
    /\ [](winner = {} => {issued[i] : i \in DOMAIN issued} \subseteq Registering)

\* C13 witness: of two concurrent registrations the one with the later id
\* reached the crown first; the other has just returned without the crown.
C13_Witness ==
    /\ resp.op = "register"
    /\ resp.result = "Ok"
    /\ resp.id = 0
    /\ ~resp.has_crown
    /\ winner = {1}
    /\ sent = <<>>

\* C14: both hubs get one UpdateWinner naming the new holder in exactly the
\* steps that change the crown holder, and no step that leaves the holder
\* unchanged sends one. A feed that makes a player's score exceed the
\* registered holder's hands it the crown (one event), and a feed of the
\* holder changes nothing and sends no event.
C14_OneEventPerChange ==
    /\ [][winner' # winner =>
            \E id \in PlayerIds :
               /\ winner' = {id}
               /\ Len(sent') = 2
               /\ sent'[1].hub = "host" /\ sent'[2].hub = "player"
               /\ \A i \in DOMAIN sent' :
                     sent'[i].kind = "UpdateWinner" /\ sent'[i].id = id]_vars
    /\ [][winner' = winner => ~UpdateWinnerSent(sent')]_vars
    /\ [][\A h \in Handlers :
            (pc[h] = "feed_crown" /\ pc'[h] = "idle" /\ winner \subseteq DOMAIN players) =>
               LET id == req[h].id
               IN /\ id \in winner => winner' = winner
                  /\ (\E w \in winner : w # id /\ players[id].score > players[w].score)
                        => winner' = {id}]_vars

\* C14 witness: player 0 registered first and holds no score, player 1 took the
\* crown on its first feed and has just been fed again without any event.
C14_Witness ==
    /\ DOMAIN players = {0, 1}
    /\ players[0].score = 0
    /\ players[1].score = 2
    /\ winner = {1}
    /\ resp.op = "feed" /\ resp.id = 1 /\ resp.result = "Ok" /\ resp.score = 2
    /\ sent = <<>>

\* The loop has finished a pass and sleeps.
PassDone == pc[LoopThread] = "sleep"

\* After the first pass of scenario A every player has scored once, has an
\* empty pile and is next due one eat interval later.
AllAteOnce ==
    /\ DOMAIN players = RoundIds
    /\ \A id \in RoundIds :
          players[id] = [score |-> 1, balls |-> 0, next_eat_time |-> EatInterval]

\* C15 as stated: in scenario A the first pass feeds every player once, and the
\* pass that follows it removes them all.
C15_FollowingTickEliminates ==
    /\ (PassDone /\ now = 0) => AllAteOnce
    /\ (PassDone /\ now > 0) => DOMAIN players = {}

\* C15 amended: in scenario A the first pass feeds every player once and moves
\* its eat time on by the eat interval; the passes made before that time leave
\* all players as they were, and the first pass made at or after it removes
\* them all.
C15_DueTickEliminates ==
    /\ (PassDone /\ now = 0) => AllAteOnce
    /\ (PassDone /\ now > 0 /\ now < EatInterval) => AllAteOnce
    /\ (PassDone /\ now >= EatInterval) => (DOMAIN players = {} /\ lost = RoundIds)

\* C15 witness: a pass made once the advanced eat time had come has removed
\* all players of scenario A.
C15_Witness ==
    /\ PassDone
    /\ now >= EatInterval
    /\ players = <<>>
    /\ lost = RoundIds
    /\ Cardinality(lost) = MaxRound

\* C16: a visit of the loop leaves a player that is not yet due as it is;
\* takes one ball from a due player with a non-empty pile, adds one to its
\* score and moves its eat time on by exactly the eat interval; removes a due
\* player with an empty pile. It changes no other player and neither the crown
\* nor the nose-goes round; a pass visits exactly the registered players, and
\* the loop's other steps change no player at all.
C16_TickPerPlayer ==
    /\ [][(pc[LoopThread] = "retain" /\ todo' # todo) =>
            \E id \in todo :
               LET player == players[id]
               IN /\ todo' = todo \ {id}
                  /\ now < player.next_eat_time => players' = players
                  /\ (now >= player.next_eat_time /\ player.balls > 0) =>
                        /\ id \in DOMAIN players'
                        /\ players'[id] = [score |-> player.score + 1,
                                           balls |-> player.balls - 1,
                                           next_eat_time |-> player.next_eat_time + EatInterval]
                  /\ (now >= player.next_eat_time /\ player.balls = 0) =>
                        DOMAIN players' = (DOMAIN players) \ {id}
                  /\ \A other \in (DOMAIN players) \ {id} :
                        other \in DOMAIN players' /\ players'[other] = players[other]
                  /\ DOMAIN players' \subseteq DOMAIN players
                  /\ UNCHANGED <<winner, nose_goes, counter>>]_vars
    /\ [][(pc[LoopThread] = "lock" /\ pc'[LoopThread] = "retain") =>
            todo' = DOMAIN players]_vars
    /\ [][pc'[LoopThread] # pc[LoopThread] => UNCHANGED <<players, winner, nose_goes>>]_vars

\* C16 witness: during a nose-goes round the loop is in a pass made before the
\* advanced eat time; it has visited a player that ate on an earlier pass and
\* left it alone, and an earlier pass removed a player with an empty pile.
C16_Witness ==
    /\ nose_goes.state = "InProgress"
    /\ pc[LoopThread] = "retain"
    /\ now > 0 /\ now < EatInterval
    /\ lost # {}
    /\ todo # {}
    /\ \E id \in (DOMAIN players) \ todo :
          players[id] = [score |-> 1, balls |-> 0, next_eat_time |-> EatInterval]

\* The handlers that raised a score and have not yet settled the crown.
Deciding == {h \in Handlers : pc[h] \in {"feed_winner", "feed_crown"}}

HostEats(msgs) ==
    {msgs[i] : i \in {j \in DOMAIN msgs :
                         msgs[j].hub = "host" /\ msgs[j].kind = "HippoEat"}}

\* C18: a step sends the host a HippoEat for a player exactly when it raises
\* that player's score, the message carries the new score, which is the old
\* one plus 1, and a player enters the registry with score 0; so the scores
\* the host sees for one player are 1, 2, 3, ... in the order of the changes.
C18_HostScoresInOrder ==
    /\ [][\A m \in HostEats(sent') :
            /\ m.id \in (DOMAIN players) \cap (DOMAIN players')
            /\ m.score = players[m.id].score + 1
            /\ m.score = players'[m.id].score]_vars
    /\ [][\A id \in (DOMAIN players) \cap (DOMAIN players') :
            players'[id].score # players[id].score =>
               \E m \in HostEats(sent') : m.id = id /\ m.score = players'[id].score]_vars
    /\ [][Cardinality(HostEats(sent')) <= 1]_vars
    /\ [][\A id \in (DOMAIN players') \ (DOMAIN players) : players'[id].score = 0]_vars

\* C18 witness: the loop has just fed a player that a request had fed before,
\* and tells the host its score is 2, while a handler waits to feed again.
C18_Witness ==
    /\ pc[LoopThread] = "retain"
    /\ \E m \in HostEats(sent) :
          /\ m.score = 2
          /\ m.locked
          /\ m.id \in DOMAIN players
          /\ players[m.id].score = 2
          /\ players[m.id].balls = 0

\* C19: once PlayerLose has been sent for an id, that id is never in the
\* registry again, no HippoEat or UpdateWinner is sent for it, and every feed
\* of it returns InvalidPlayer.
C19_EliminationFinal ==
    /\ lost \cap DOMAIN players = {}
    /\ \A i \in DOMAIN sent :
          sent[i].kind \in {"HippoEat", "UpdateWinner", "PlayerRegister"} =>
             sent[i].id \notin lost
    /\ (resp.op = "feed" /\ resp.id \in lost) => resp.result = "InvalidPlayer"

\* The time at which the pile of a registered player is used up and the player
\* is due once more; eating leaves it unchanged.
Due(id) == players[id].next_eat_time + players[id].balls * EatInterval

\* C20: under the fairness of SpecLive every registered player whose pile
\* runs out while the clock can still advance (the loop's last pass is made
\* later than MaxClock - SleepMs) is eventually removed from the registry.
C20_EventuallyEliminated ==
    \A id \in RoundIds :
       (id \in DOMAIN players /\ Due(id) <= MaxClock - SleepMs)
          ~> (id \notin DOMAIN players)

====
